---- MODULE Spec2Model ----
(***************************************************************************)
(* A model of bevy_ecs_ldtk's asset-processing system process_loaded_ldtk  *)
(* (src/src/systems.rs) and of the inputs it reads each frame: the asset   *)
(* event reader, the asset store, the worlds (entities carrying a          *)
(* Handle<LdtkAsset>, a LevelSelection and a Map) and the command queue.   *)
(***************************************************************************)
EXTENDS Integers, Sequences, FiniteSets, Bags, TLC

(***************************************************************************)
(* Bounds of the model.                                                    *)
(***************************************************************************)
MaxInputs == 4     \* asset events, world spawns and selection updates in a run of the app
MaxLayers == 3     \* layer instances per level
MaxFrames == 3     \* frames the schedule of the plugin is run for

(***************************************************************************)
(* Program constants.                                                      *)
(***************************************************************************)
U16Range == 65536  \* `layer_z as u16`
ChunkSide == 32    \* CHUNK_SIZE: ChunkSize(32, 32)

Handles == {"h1", "h2"}
WorldIds == {1, 2}   \* the entities that may become worlds, in spawn order
NoAsset == [kind |-> "NoAsset", tilesets |-> {}, levels |-> <<>>]  \* Assets::get = None
NoTileset == -1    \* layer_instance.tileset_def_uid = None
NoLayers == <<>>

Range(s) == {s[i] : i \in DOMAIN s}

(***************************************************************************)
(* LevelSelection: the three variants matched at systems.rs:93-97.         *)
(***************************************************************************)
Index(j) == [kind |-> "Index", index |-> j, identifier |-> "", uid |-> 0]
Identifier(s) == [kind |-> "Identifier", index |-> 0, identifier |-> s, uid |-> 0]
Uid(u) == [kind |-> "Uid", index |-> 0, identifier |-> "", uid |-> u]

LevelSelections == {Index(0), Index(2), Identifier("B"), Uid(10)}

(***************************************************************************)
(* Projects the asset store may hold.  Every project has the tileset       *)
(* definition 1 and two levels, A (uid 10) and B (uid 11).  Level A has    *)
(* MaxLayers layers that all use tileset 1.  Level B differs per project:  *)
(*   "valid":    its second layer has no tileset (an Entities/IntGrid      *)
(*               layer), the others use tileset 1;                         *)
(*   "dangling": as "valid", but its first layer references tileset 2,     *)
(*               which the project does not define;                        *)
(*   "nolayers": layer_instances is None.                                  *)
(* A layer with a tileset holds two grid tiles and one auto-layer tile; a  *)
(* layer without one holds two entity instances and the IntGrid cells      *)
(* 0, 3, 0, 1.  The grid sizes of the layers differ, so that they fall on  *)
(* both sides of the chunk boundaries.                                     *)
(***************************************************************************)
Layer(ts) ==
    [tileset_def_uid |-> ts,
     c_wid |-> 0, c_hei |-> 0,
     grid_tiles |-> IF ts = NoTileset THEN <<>> ELSE << <<0, 0>>, <<1, 0>> >>,
     auto_layer_tiles |-> IF ts = NoTileset THEN <<>> ELSE << <<0, 1>> >>,
     int_grid_csv |-> IF ts = NoTileset THEN <<0, 3, 0, 1>> ELSE <<>>,
     entity_instances |-> IF ts = NoTileset THEN <<"Player", "Chest">> ELSE <<>>]

\* a layer of c_wid columns and c_hei rows
Sized(layer, c_wid, c_hei) == [layer EXCEPT !.c_wid = c_wid, !.c_hei = c_hei]

LevelA == [uid |-> 10, identifier |-> "A", has_layers |-> TRUE,
           layer_instances |->
              [i \in 1..MaxLayers |->
                  Sized(Layer(1), ChunkSide * (i - 1), ChunkSide * (i - 1) + 1)]]

LevelB(kind) ==
    [uid |-> 11, identifier |-> "B", has_layers |-> kind # "nolayers",
     layer_instances |->
        IF kind = "nolayers" THEN NoLayers
        ELSE [i \in 1..MaxLayers |->
                Sized(IF i = 2 THEN Layer(NoTileset)
                      ELSE IF i = 1 /\ kind = "dangling" THEN Layer(2)
                      ELSE Layer(1),
                      ChunkSide * i - 1, i)]]

Project(kind) == [kind |-> kind, tilesets |-> {1},
                  levels |-> <<LevelA, LevelB(kind)>>]

Projects == {Project(k) : k \in {"valid", "dangling", "nolayers"}}

VARIABLES
    ldtk_assets,    \* Res<Assets<LdtkAsset>>: handle -> project or NoAsset
    ldtk_events,    \* AssetEvent<LdtkAsset> events not yet read by the system
    worlds,         \* the entities of ldtk_map_query, in entity order
    read_events,    \* the batch the last run of the system read
    new_ldtks,      \* the handles the last run found Added
    changed_ldtks,  \* the Vec built by the last run (systems.rs:47-72)
    commands,       \* the spawn commands the last run queued
    scene,          \* bag of the layer entities spawned so far
    panicked,       \* "none", or the unwrap that panicked
    last_step,      \* the step the app took last, and the world it was about
    inputs,         \* number of inputs the app has received
    process_api,    \* what LdtkStage::ProcessApi is in the schedule of the app
    ran,            \* the systems of the plugin's schedule run in this frame
    frame           \* the frame the schedule is in, 0 before the first

vars == <<ldtk_assets, ldtk_events, worlds, read_events, new_ldtks,
          changed_ldtks, commands, scene, panicked, last_step, inputs,
          process_api, ran, frame>>

\* the state of the frame schedule
schedule == <<process_api, ran, frame>>

\* the schedule has not been built: no frame has begun
NotScheduled == process_api = "unbuilt" /\ ran = {} /\ frame = 0

Event(k, h) == [kind |-> k, handle |-> h]

Step(op, map) == [op |-> op, map |-> map]

(***************************************************************************)
(* systems.rs:47-68: the event loop.                                       *)
(***************************************************************************)
FilterRemoved(vec, handle) == SelectSeq(vec, LAMBDA changed_handle : changed_handle = handle)

RECURSIVE TrackEvents(_)
TrackEvents(events) ==
    IF events = <<>> THEN <<>>
    ELSE LET n == Len(events)
             before == TrackEvents(SubSeq(events, 1, n - 1))
             event == events[n]
         IN  IF event.kind \in {"Created", "Modified"}
             THEN Append(before, event.handle)
             ELSE FilterRemoved(before, event.handle)

(***************************************************************************)
(* systems.rs:43, 70-72: the handles of the worlds whose Handle<LdtkAsset> *)
(* was added since the system last ran, in entity order.                   *)
(***************************************************************************)
RECURSIVE NewLdtkHandles(_)
NewLdtkHandles(ws) ==
    IF ws = <<>> THEN <<>>
    ELSE LET n == Len(ws)
             before == NewLdtkHandles(SubSeq(ws, 1, n - 1))
         IN  IF ws[n].added THEN Append(before, ws[n].ldtk_handle) ELSE before

\* Mutant: the new handles are pushed before the event loop, so that the
\* Removed filter runs over them too.
RECURSIVE TrackEventsFrom(_, _)
TrackEventsFrom(vec, events) ==
    IF events = <<>> THEN vec
    ELSE LET n == Len(events)
             before == TrackEventsFrom(vec, SubSeq(events, 1, n - 1))
             event == events[n]
         IN  IF event.kind \in {"Created", "Modified"}
             THEN Append(before, event.handle)
             ELSE FilterRemoved(before, event.handle)

ChangedLdtksNewFirst(events, ws) == TrackEventsFrom(NewLdtkHandles(ws), events)

ChangedLdtks(events, ws) == TrackEvents(events) \o NewLdtkHandles(ws)

(***************************************************************************)
(* systems.rs:91-99: the levels of a project a selection keeps, as indices *)
(* into the project's level sequence (1-based here, 0-based in the code).  *)
(***************************************************************************)
\* Mutant: Index is compared with the position counted from one.
LevelMatchesFromOne(level_selection, i, l) ==
    CASE level_selection.kind = "Identifier" -> level_selection.identifier = l.identifier
      [] level_selection.kind = "Index" -> level_selection.index = i
      [] level_selection.kind = "Uid" -> level_selection.uid = l.uid

LevelMatches(level_selection, i, l) ==
    CASE level_selection.kind = "Identifier" -> level_selection.identifier = l.identifier
      [] level_selection.kind = "Index" -> level_selection.index = i - 1
      [] level_selection.kind = "Uid" -> level_selection.uid = l.uid

SelectedLevels(project, level_selection) ==
    SelectSeq([i \in DOMAIN project.levels |-> i],
              LAMBDA i : LevelMatches(level_selection, i, project.levels[i]))

(***************************************************************************)
(* systems.rs:101, 126: `.rev().enumerate()` numbers the layers from the   *)
(* last one of the project's sequence; step k (from 0) visits layer n - k. *)
(***************************************************************************)
LayerZ(k) == k % U16Range

\* Mutant: the layers are enumerated without `.rev()`.
LayerAtStepForward(n, k) == k + 1

LayerAtStep(n, k) == n - k

(***************************************************************************)
(* systems.rs:103-106: the number of chunks along one axis,                *)
(* `(c as f32 / 32 as f32).ceil() as u32`.  The division by a power of two *)
(* is exact in f32 for the sizes of the model; `as u32` saturates at 0.    *)
(***************************************************************************)
\* Mutant: the quotient is truncated instead of rounded up.
ChunkCountFloor(c) == IF c < 0 THEN 0 ELSE c \div ChunkSide

ChunkCount(c) ==
    IF c < 0 THEN 0
    ELSE IF c % ChunkSide = 0 THEN c \div ChunkSide ELSE c \div ChunkSide + 1

MapSize(layer_instance) ==
    <<ChunkCount(layer_instance.c_wid), ChunkCount(layer_instance.c_hei)>>

\* systems.rs:129-130, 143: both loops over the tile instances have an empty
\* body and add_tile_to_layer is never called: no tile is placed.
PlaceTiles(layer_instance) == {}

\* systems.rs:122-128: the layer entity LayerBuilder::new spawns
SpawnLayer(map, level, layer, k) ==
    [kind |-> "layer", map |-> map, level |-> level.uid, layer |-> layer,
     layer_z |-> LayerZ(k),
     map_size |-> MapSize(level.layer_instances[layer]),
     tiles |-> PlaceTiles(level.layer_instances[layer])]

\* systems.rs:133: the loop over int_grid_csv has an empty body
SpawnIntGridCells(st, map, level, layer) == st

\* systems.rs:135: the loop over entity_instances has an empty body
SpawnEntityInstances(st, map, level, layer) == st

\* systems.rs:133-135: what every layer goes through after its tileset part
FinishLayer(st, map, level, layer) ==
    SpawnEntityInstances(SpawnIntGridCells(st, map, level, layer), map, level, layer)

(***************************************************************************)
(* The processing state threaded through the loops of systems.rs:74-140:   *)
(* the commands queued so far and the panic that stopped the run, if any.  *)
(***************************************************************************)
Running(st) == st.panic = "none"

\* systems.rs:101-136, steps k .. n-1 of one level
RECURSIVE ProcessLayers(_, _, _, _, _)
ProcessLayers(st, map, project, level, k) ==
    LET n == Len(level.layer_instances)
        layer == LayerAtStep(n, k)
        tileset_uid == level.layer_instances[layer].tileset_def_uid
    IN  IF ~Running(st) \/ k >= n THEN st
        ELSE IF tileset_uid = NoTileset
             THEN ProcessLayers(FinishLayer(st, map, level, layer),
                                map, project, level, k + 1)
        ELSE IF tileset_uid \notin project.tilesets
             THEN [st EXCEPT !.panic = "tileset"]
        ELSE ProcessLayers(
                FinishLayer([st EXCEPT !.cmds = Append(@, SpawnLayer(map, level, layer, k))],
                            map, level, layer),
                map, project, level, k + 1)

\* systems.rs:100
ProcessLevel(st, map, project, level) ==
    IF level.has_layers THEN ProcessLayers(st, map, project, level, 0) ELSE st

\* systems.rs:91-138, the selected levels from position j on
RECURSIVE ProcessLevels(_, _, _, _, _)
ProcessLevels(st, map, project, selected, j) ==
    IF ~Running(st) \/ j > Len(selected) THEN st
    ELSE ProcessLevels(ProcessLevel(st, map, project, project.levels[selected[j]]),
                       map, project, selected, j + 1)

\* systems.rs:79-138, the body of the inner loop for one world
ProcessWorld(st, assets, ws, map) ==
    LET ldtk_asset == assets[ws[map].ldtk_handle]
    IN  IF ldtk_asset = NoAsset THEN [st EXCEPT !.panic = "asset"]
        ELSE ProcessLevels(st, map, ldtk_asset,
                           SelectedLevels(ldtk_asset, ws[map].level_selection), 1)

\* Mutant: the worlds are not filtered by the changed handle.
RECURSIVE ProcessWorldsUnfiltered(_, _, _, _, _)
ProcessWorldsUnfiltered(st, assets, ws, changed_ldtk, map) ==
    IF ~Running(st) \/ map > Len(ws) THEN st
    ELSE ProcessWorldsUnfiltered(ProcessWorld(st, assets, ws, map),
                                 assets, ws, changed_ldtk, map + 1)

\* systems.rs:75-139, the worlds from position map on that use changed_ldtk
RECURSIVE ProcessWorlds(_, _, _, _, _)
ProcessWorlds(st, assets, ws, changed_ldtk, map) ==
    IF ~Running(st) \/ map > Len(ws) THEN st
    ELSE IF ws[map].ldtk_handle = changed_ldtk
         THEN ProcessWorlds(ProcessWorld(st, assets, ws, map), assets, ws, changed_ldtk, map + 1)
         ELSE ProcessWorlds(st, assets, ws, changed_ldtk, map + 1)

\* systems.rs:74-140, the entries of changed from position i on
RECURSIVE ProcessChanged(_, _, _, _, _)
ProcessChanged(st, assets, ws, changed, i) ==
    IF ~Running(st) \/ i > Len(changed) THEN st
    ELSE ProcessChanged(ProcessWorlds(st, assets, ws, changed[i], 1),
                        assets, ws, changed, i + 1)

BagOfSeq(s) == [e \in Range(s) |-> Cardinality({i \in DOMAIN s : s[i] = e})]

(***************************************************************************)
(* systems.rs:39, 122-128: the layer entities are spawned through          *)
(* `Commands`, a queue that is applied to the world after the system has   *)
(* returned.  A system that panics never returns: its queue is dropped.    *)
(***************************************************************************)
\* Mutant: every command takes effect at once, whatever happens later.
ApplyCommandsAtOnce(sc, st) == sc (+) BagOfSeq(st.cmds)

ApplyCommands(sc, st) == IF Running(st) THEN sc (+) BagOfSeq(st.cmds) ELSE sc

(***************************************************************************)
(* Initial state: nothing loaded, no world spawned, the system never ran.  *)
(***************************************************************************)
Init ==
    /\ ldtk_assets = [h \in Handles |-> NoAsset]
    /\ ldtk_events = <<>>
    /\ worlds = <<>>
    /\ read_events = <<>>
    /\ new_ldtks = <<>>
    /\ changed_ldtks = <<>>
    /\ commands = <<>>
    /\ scene = EmptyBag
    /\ panicked = "none"
    /\ last_step = Step("Init", 0)
    /\ inputs = 0
    /\ NotScheduled

\* An input leaves the system's own state alone.
Input(op, map) ==
    /\ inputs' = inputs + 1
    /\ last_step' = Step(op, map)
    /\ UNCHANGED <<read_events, new_ldtks, changed_ldtks, commands, scene, panicked>>
    /\ UNCHANGED schedule

\* The app is running and the model's budget of inputs is not used up.
Active == panicked = "none" /\ inputs < MaxInputs

(***************************************************************************)
(* The inputs of the system.                                               *)
(***************************************************************************)
\* An asset is added to the store: AssetEvent::Created
AssetCreated(h, p) ==
    /\ Active
    /\ ldtk_assets[h] = NoAsset
    /\ ldtk_assets' = [ldtk_assets EXCEPT ![h] = p]
    /\ ldtk_events' = Append(ldtk_events, Event("Created", h))
    /\ UNCHANGED worlds
    /\ Input("AssetCreated", 0)

\* An asset of the store is replaced (hot reload): AssetEvent::Modified
AssetModified(h, p) ==
    /\ Active
    /\ ldtk_assets[h] # NoAsset
    /\ ldtk_assets' = [ldtk_assets EXCEPT ![h] = p]
    /\ ldtk_events' = Append(ldtk_events, Event("Modified", h))
    /\ UNCHANGED worlds
    /\ Input("AssetModified", 0)

\* An asset is removed from the store: AssetEvent::Removed
AssetRemoved(h) ==
    /\ Active
    /\ ldtk_assets[h] # NoAsset
    /\ ldtk_assets' = [ldtk_assets EXCEPT ![h] = NoAsset]
    /\ ldtk_events' = Append(ldtk_events, Event("Removed", h))
    /\ UNCHANGED worlds
    /\ Input("AssetRemoved", 0)

\* lib.rs:30-37: a world is spawned with a handle and a level selection
SpawnWorld(h, sel) ==
    /\ Active
    /\ Len(worlds) + 1 \in WorldIds
    /\ worlds' = Append(worlds, [ldtk_handle |-> h, level_selection |-> sel, added |-> TRUE])
    /\ UNCHANGED <<ldtk_assets, ldtk_events>>
    /\ Input("SpawnWorld", Len(worlds) + 1)

\* lib.rs:90: the level selection of a world is updated
SetLevelSelection(map, sel) ==
    /\ Active
    /\ map \in DOMAIN worlds
    /\ worlds[map].level_selection # sel
    /\ worlds' = [worlds EXCEPT ![map].level_selection = sel]
    /\ UNCHANGED <<ldtk_assets, ldtk_events>>
    /\ Input("SetLevelSelection", map)

(***************************************************************************)
(* systems.rs:38-141: one run of process_loaded_ldtk.  The commands it     *)
(* queued are applied to the scene when it returns; a panic unwinds out of *)
(* the system and the queue is never applied.                              *)
(***************************************************************************)
ProcessLoadedLdtk ==
    /\ panicked = "none"
    /\ LET changed == ChangedLdtks(ldtk_events, worlds)
           st == ProcessChanged([cmds |-> <<>>, panic |-> "none"],
                                ldtk_assets, worlds, changed, 1)
       IN  /\ read_events' = ldtk_events
           /\ new_ldtks' = NewLdtkHandles(worlds)
           /\ changed_ldtks' = changed
           /\ commands' = st.cmds
           /\ panicked' = st.panic
           /\ scene' = ApplyCommands(scene, st)
    /\ ldtk_events' = <<>>
    /\ worlds' = [map \in DOMAIN worlds |-> [worlds[map] EXCEPT !.added = FALSE]]
    /\ last_step' = Step("ProcessLoadedLdtk", 0)
    /\ UNCHANGED <<ldtk_assets, inputs>>
    /\ UNCHANGED schedule

Next ==
    \/ \E h \in Handles, p \in Projects : AssetCreated(h, p)
    \/ \E h \in Handles, p \in Projects : AssetModified(h, p)
    \/ \E h \in Handles : AssetRemoved(h)
    \/ \E h \in Handles, sel \in LevelSelections : SpawnWorld(h, sel)
    \/ \E map \in DOMAIN worlds, sel \in LevelSelections : SetLevelSelection(map, sel)
    \/ ProcessLoadedLdtk

Spec == Init /\ [][Next]_vars

(***************************************************************************)
(* Vocabulary of the properties.                                           *)
(***************************************************************************)
JustRan == last_step.op = "ProcessLoadedLdtk"

Tracked == Range(changed_ldtks)

Visited(map) == map \in DOMAIN worlds /\ worlds[map].ldtk_handle \in Tracked

ProjectOf(map) == ldtk_assets[worlds[map].ldtk_handle]

Loaded(map) == ProjectOf(map) # NoAsset

SelectedOf(map) == Range(SelectedLevels(ProjectOf(map), worlds[map].level_selection))

TilesetLayers(level) ==
    IF level.has_layers
    THEN {i \in DOMAIN level.layer_instances :
            level.layer_instances[i].tileset_def_uid # NoTileset}
    ELSE {}

DanglingLevel(project, level) ==
    \E i \in TilesetLayers(level) :
        level.layer_instances[i].tileset_def_uid \notin project.tilesets

HasDangling(map) ==
    Loaded(map) /\ \E j \in SelectedOf(map) : DanglingLevel(ProjectOf(map), ProjectOf(map).levels[j])

\* the levels a world's selection resolves to that have a layer to show
WantedLevels(map) ==
    {ProjectOf(map).levels[j].uid : j \in {x \in SelectedOf(map) :
                                             TilesetLayers(ProjectOf(map).levels[x]) # {}}}

\* the levels of which a world has a layer entity in the scene
SpawnedLevels(map) == {node.level : node \in {x \in DOMAIN scene : x.map = map}}

\* number of layer entities in the scene for one layer instance
Copies(map, uid, layer) ==
    BagCardinality([node \in {x \in DOMAIN scene :
                                x.map = map /\ x.level = uid /\ x.layer = layer}
                      |-> scene[node]])

CommandsOf(map) == {i \in DOMAIN commands : commands[i].map = map}

LastAbout(h) ==
    LET about == {i \in DOMAIN read_events : read_events[i].handle = h}
    IN  IF about = {} THEN 0 ELSE CHOOSE i \in about : \A j \in about : j <= i

OnlyAbout(h) == \A i \in DOMAIN read_events : read_events[i].handle = h

Survives(g) ==
    \E i \in DOMAIN read_events :
        /\ read_events[i].handle = g
        /\ read_events[i].kind \in {"Created", "Modified"}
        /\ \A j \in DOMAIN read_events :
              j > i => ~(read_events[j].handle = g /\ read_events[j].kind = "Removed")

Quiet == panicked = "none" /\ ldtk_events = <<>> /\ NewLdtkHandles(worlds) = <<>>

(***************************************************************************)
(* C1 -- Removal suppression: in the batch a run read, a Removed{h} event  *)
(* drops every entry for h added earlier in the batch and later            *)
(* Created/Modified events for h are kept: for a handle h that is not      *)
(* newly attached, h is not tracked when the last event about h is         *)
(* Removed{h} (so [Modified(h), Removed(h)] yields {}), and h is tracked   *)
(* when the batch is about h alone and ends with Created/Modified of h.    *)
(* The code keeps the entries equal to h instead of dropping them.         *)
(***************************************************************************)
C1_RemovalSuppression ==
    \A h \in Handles :
        (h \notin Range(new_ldtks) /\ LastAbout(h) > 0) =>
            /\ read_events[LastAbout(h)].kind = "Removed" => h \notin Tracked
            /\ (OnlyAbout(h) /\ read_events[LastAbout(h)].kind # "Removed") => h \in Tracked

(***************************************************************************)
(* C2 -- A Removed{h} event leaves the entries of every other handle       *)
(* alone: a handle g with a Created or Modified event in the batch and no  *)
(* Removed{g} after it is tracked, wherever a Removed{h} is placed.        *)
(* The code's filter drops every entry that is not h.                      *)
(***************************************************************************)
C2_RemovedLeavesOthers == \A g \in Handles : Survives(g) => g \in Tracked

(***************************************************************************)
(* C3 -- Re-synthesis leaves no stale node: when a run has synthesized a   *)
(* level of a world, the scene holds for each of its layer instances only  *)
(* the layer entities this run spawned, none from an earlier run (and so,  *)
(* with C7, at most one).                                                  *)
(* The code never despawns (systems.rs:79) and spawns again on each visit. *)
(***************************************************************************)
C3_NoStaleNodes ==
    (JustRan /\ panicked = "none") =>
        \A i \in DOMAIN commands :
            Copies(commands[i].map, commands[i].level, commands[i].layer)
                = Cardinality({j \in DOMAIN commands :
                                 /\ commands[j].map = commands[i].map
                                 /\ commands[j].level = commands[i].level
                                 /\ commands[j].layer = commands[i].layer})

(***************************************************************************)
(* C4 -- Z-order.  As claimed: of two layers of one level, the one later   *)
(* in the project's sequence gets the strictly larger z-index.             *)
(***************************************************************************)
C4_ZIncreasingInProjectOrder ==
    \A i, j \in DOMAIN commands :
        (/\ commands[i].map = commands[j].map
         /\ commands[i].level = commands[j].level
         /\ commands[i].layer < commands[j].layer)
            => commands[i].layer_z < commands[j].layer_z

(***************************************************************************)
(* C4, amended -- of two layers of one level that have a tileset, the one  *)
(* later in the project's sequence gets the strictly smaller z-index: the  *)
(* layer at position p (from 1) of a level of n layers gets z = n - p, so  *)
(* the first layer of the project's sequence is frontmost.                 *)
(***************************************************************************)
C4_ZDecreasingInProjectOrder ==
    /\ \A i, j \in DOMAIN commands :
        (/\ commands[i].map = commands[j].map
         /\ commands[i].level = commands[j].level
         /\ commands[i].layer < commands[j].layer)
            => commands[i].layer_z > commands[j].layer_z
    /\ \A i \in DOMAIN commands : commands[i].layer_z = MaxLayers - commands[i].layer

\* a level of three or more tileset layers has been synthesized
C4_Witness ==
    \E i, j, k \in DOMAIN commands :
        /\ commands[i].map = commands[j].map /\ commands[j].map = commands[k].map
        /\ commands[i].level = commands[j].level /\ commands[j].level = commands[k].level
        /\ commands[i].layer < commands[j].layer /\ commands[j].layer < commands[k].layer
        /\ commands[i].layer_z > commands[j].layer_z
        /\ commands[j].layer_z > commands[k].layer_z

(***************************************************************************)
(* C5 -- Dangling reference isolation: when a run visits a world whose     *)
(* selected level references a tileset the project does not define, the    *)
(* run does not panic, that level gets no layer entity, and every other    *)
(* visited world with a loaded project and valid levels has its layers in  *)
(* the scene.  The code unwraps the tileset lookup and panics.             *)
(***************************************************************************)
C5_DanglingIsolated ==
    JustRan =>
        \A map \in DOMAIN worlds :
            (Visited(map) /\ HasDangling(map)) =>
                /\ panicked = "none"
                /\ CommandsOf(map) = {}
                /\ \A other \in DOMAIN worlds \ {map} :
                      (Visited(other) /\ Loaded(other) /\ ~HasDangling(other)) =>
                          WantedLevels(other) \subseteq SpawnedLevels(other)

(***************************************************************************)
(* C6 -- Selecting nothing is no error: when a run visits a world whose    *)
(* project is not in the asset store, or whose selection matches no level, *)
(* the run queues nothing for that world and does not panic on it.         *)
(* The code unwraps Assets::get and panics when the asset is absent.       *)
(***************************************************************************)
C6_NothingSelectedIsNoError ==
    JustRan =>
        \A map \in DOMAIN worlds :
            (Visited(map) /\ (~Loaded(map) \/ SelectedOf(map) = {})) =>
                /\ panicked # "asset"
                /\ CommandsOf(map) = {}

(***************************************************************************)
(* C7 -- The tracked set is deduplicated by handle: a run synthesizes each *)
(* world at most once, so it queues no layer entity twice.                 *)
(* The code pushes into a Vec and visits a world once per entry.           *)
(***************************************************************************)
C7_SynthesizedAtMostOnce ==
    \A i, j \in DOMAIN commands : commands[i] = commands[j] => i = j

(***************************************************************************)
(* C8 -- First attachment: every handle a run found newly attached to a    *)
(* world is tracked, whatever the batch holds for it.                      *)
(***************************************************************************)
C8_NewHandlesTracked == \A h \in Range(new_ldtks) : h \in Tracked

\* a run found two new handles: one with a Removed event in the batch it
\* read, one the batch says nothing about
C8_Witness ==
    /\ JustRan
    /\ \E h, g \in Range(new_ldtks) :
          /\ Event("Removed", h) \in Range(read_events)
          /\ LastAbout(g) = 0

(***************************************************************************)
(* C9 -- A change of the level selection is acted on without any asset     *)
(* event: when the selection of a world with a loaded project has just     *)
(* been set to a level Y that is not in the scene while another level X    *)
(* is, and there is no unread event and no new handle, then the run of the *)
(* system that follows leaves Y in the scene and X out of it.              *)
(* (A run with no event and no new handle changes nothing but the records  *)
(* of the last run, so what the first run leaves undone stays undone in    *)
(* every later one.)                                                       *)
(* The code visits a world only for an asset event or a new handle.        *)
(***************************************************************************)
C9_SelectionPending(map) ==
    /\ last_step = Step("SetLevelSelection", map)
    /\ Quiet
    /\ Loaded(map)
    /\ WantedLevels(map) # {}
    /\ WantedLevels(map) \cap SpawnedLevels(map) = {}
    /\ SpawnedLevels(map) # {}

C9_SelectionSettled(map) == SpawnedLevels(map) = WantedLevels(map)

C9_SelectionChangeActedOn ==
    [][\A map \in DOMAIN worlds :
          (ProcessLoadedLdtk /\ C9_SelectionPending(map)) => C9_SelectionSettled(map)']_vars

(***************************************************************************)
(* C10 -- Round-trip selection: a run that visits a world of which exactly *)
(* the selected levels are already in the scene spawns nothing and         *)
(* despawns nothing for that world.                                        *)
(* The code keeps no record of what is spawned and spawns again.           *)
(***************************************************************************)
C10_RoundTripSelection ==
    [][\A map \in DOMAIN worlds :
          (/\ ProcessLoadedLdtk
           /\ worlds[map].ldtk_handle \in Range(changed_ldtks')
           /\ Loaded(map)
           /\ WantedLevels(map) # {}
           /\ SpawnedLevels(map) = WantedLevels(map))
              => \A uid \in SpawnedLevels(map) : \A layer \in 1..MaxLayers :
                    Copies(map, uid, layer)' = Copies(map, uid, layer)]_vars

(***************************************************************************)
(* Vocabulary of the properties about the nodes of a level.                *)
(***************************************************************************)
\* the level of a project with a given uid (uids are unique in a project)
LevelOf(project, uid) ==
    project.levels[CHOOSE j \in DOMAIN project.levels : project.levels[j].uid = uid]

LayersOf(level) == IF level.has_layers THEN DOMAIN level.layer_instances ELSE {}

\* the levels a run has synthesized: world and position in the project
Synthesized ==
    {ml \in (DOMAIN worlds) \X {1, 2} :
        /\ Visited(ml[1]) /\ Loaded(ml[1])
        /\ ml[2] \in SelectedOf(ml[1])}

\* number of nodes of one kind in the scene for item `at` of a layer
NodesAt(kind, map, uid, layer, at) ==
    BagCardinality([node \in {x \in DOMAIN scene :
                                /\ x.kind = kind /\ x.map = map /\ x.level = uid
                                /\ x.layer = layer /\ x.at = at}
                      |-> scene[node]])

(***************************************************************************)
(* C11 -- Default nodes: when a run has synthesized a level, every         *)
(* EntityInstance of its layers has an entity node in the scene and every  *)
(* nonzero IntGrid cell a cell node; a cell of value 0 has none.           *)
(* The loops at systems.rs:133 and 135 have empty bodies.                  *)
(***************************************************************************)
C11_DefaultNodes ==
    (JustRan /\ panicked = "none") =>
        \A ml \in Synthesized :
            LET level == ProjectOf(ml[1]).levels[ml[2]]
            IN  \A layer \in LayersOf(level) :
                    LET li == level.layer_instances[layer]
                    IN  /\ \A e \in DOMAIN li.entity_instances :
                              NodesAt("entity", ml[1], level.uid, layer, e) >= 1
                        /\ \A c \in DOMAIN li.int_grid_csv :
                              IF li.int_grid_csv[c] # 0
                              THEN NodesAt("cell", ml[1], level.uid, layer, c) >= 1
                              ELSE NodesAt("cell", ml[1], level.uid, layer, c) = 0

\* the layer instance a layer node was spawned for
LayerOfNode(node) ==
    LevelOf(ProjectOf(node.map), node.level).layer_instances[node.layer]

(***************************************************************************)
(* C12 -- Tile placement: the layer node a run spawns for a layer instance *)
(* holds as many tiles as the layer has tile instances, grid tiles and     *)
(* auto-layer tiles together.                                              *)
(* The loops at systems.rs:129-130 have empty bodies.                      *)
(***************************************************************************)
C12_EveryTilePlaced ==
    (JustRan /\ panicked = "none") =>
        \A i \in DOMAIN commands :
            Cardinality(commands[i].tiles)
                = Len(LayerOfNode(commands[i]).grid_tiles)
                  + Len(LayerOfNode(commands[i]).auto_layer_tiles)

(***************************************************************************)
(* C13 -- One layer node per layer instance: when a run has synthesized a  *)
(* level, the layers it has spawned a node for are all the layer instances *)
(* of the level, those without a tileset included.                         *)
(* LayerBuilder::new is called only under `if let Some(tileset_uid)`.      *)
(***************************************************************************)
C13_EveryLayerHasNode ==
    (JustRan /\ panicked = "none") =>
        \A ml \in Synthesized :
            LET level == ProjectOf(ml[1]).levels[ml[2]]
            IN  {commands[i].layer : i \in {x \in CommandsOf(ml[1]) :
                                               commands[x].level = level.uid}}
                    = LayersOf(level)

(***************************************************************************)
(* Selection resolution on its own: a world has just been attached to a    *)
(* freshly loaded project, with any selection of a wider set than the      *)
(* inputs of Spec draw from: every position up to one past the last level, *)
(* and identifiers and uids that no level has.  The system then runs.      *)
(***************************************************************************)
AnyLevelSelections ==
    {Index(j) : j \in 0..3} \cup {Identifier(s) : s \in {"A", "B", "Z"}}
        \cup {Uid(u) : u \in {10, 11, 12}}

SelectionInit ==
    \E h \in Handles, p \in Projects, sel \in AnyLevelSelections :
        /\ ldtk_assets = [g \in Handles |-> IF g = h THEN p ELSE NoAsset]
        /\ ldtk_events = <<Event("Created", h)>>
        /\ worlds = <<[ldtk_handle |-> h, level_selection |-> sel, added |-> TRUE]>>
        /\ read_events = <<>>
        /\ new_ldtks = <<>>
        /\ changed_ldtks = <<>>
        /\ commands = <<>>
        /\ scene = EmptyBag
        /\ panicked = "none"
        /\ last_step = Step("SpawnWorld", 1)
        /\ inputs = 2
        /\ NotScheduled

SelectionNext == ProcessLoadedLdtk

SelectionSpec == SelectionInit /\ [][SelectionNext]_vars

\* the uids of the levels a selection denotes, read off the variant
Denoted(project, level_selection) ==
    CASE level_selection.kind = "Index" ->
            IF level_selection.index + 1 \in DOMAIN project.levels
            THEN {project.levels[level_selection.index + 1].uid}
            ELSE {}
      [] level_selection.kind = "Identifier" ->
            {l.uid : l \in {x \in Range(project.levels) :
                               x.identifier = level_selection.identifier}}
      [] level_selection.kind = "Uid" ->
            {l.uid : l \in Range(project.levels)} \cap {level_selection.uid}

(***************************************************************************)
(* C15 -- Selection resolution: in a project with unique uids and          *)
(* identifiers, the levels a world's selection picks are exactly the level *)
(* at position i for Index(i), the level named s for Identifier(s), the    *)
(* level with uid u for Uid(u): one level when there is such a level, none *)
(* otherwise; and a run spawns layer nodes of that level only.             *)
(***************************************************************************)
C15_SelectionResolution ==
    \A map \in DOMAIN worlds :
        Loaded(map) =>
            LET picked == SelectedLevels(ProjectOf(map), worlds[map].level_selection)
                denoted == Denoted(ProjectOf(map), worlds[map].level_selection)
            IN  /\ {ProjectOf(map).levels[j].uid : j \in Range(picked)} = denoted
                /\ Len(picked) = Cardinality(denoted)
                /\ Cardinality(denoted) <= 1
                /\ (JustRan /\ panicked = "none" /\ Visited(map)) =>
                      /\ {commands[i].level : i \in CommandsOf(map)} \subseteq denoted
                      /\ WantedLevels(map) \subseteq
                            {commands[i].level : i \in CommandsOf(map)}

\* a run has spawned the layers of the second level, and of no other, for a
\* world that selects by position
C15_Witness ==
    /\ JustRan /\ panicked = "none"
    /\ \E map \in DOMAIN worlds :
          /\ Loaded(map) /\ Visited(map)
          /\ worlds[map].level_selection = Index(1)
          /\ {commands[i].level : i \in CommandsOf(map)} = {11}

C19_OnlyTrackedWorldsTouched ==
    [][ProcessLoadedLdtk =>
          \A map \in DOMAIN worlds :
              IF worlds[map].ldtk_handle \notin Range(changed_ldtks')
              THEN /\ \A i \in DOMAIN commands' : commands'[i].map # map
                   /\ \A node \in DOMAIN scene \cup DOMAIN scene' :
                         node.map = map =>
                            /\ node \in DOMAIN scene /\ node \in DOMAIN scene'
                            /\ scene'[node] = scene[node]
              ELSE \A i \in DOMAIN commands' :
                      commands'[i].map = map =>
                         /\ Loaded(map)
                         /\ commands'[i].level
                               \in Denoted(ProjectOf(map), worlds[map].level_selection)
                         /\ commands'[i].layer
                               \in TilesetLayers(LevelOf(ProjectOf(map), commands'[i].level))
                         /\ commands'[i].map_size
                               = MapSize(LevelOf(ProjectOf(map), commands'[i].level)
                                            .layer_instances[commands'[i].layer])]_vars

\* a run has spawned the layers of one world and has left alone another world,
\* on another handle, whose layers an earlier run had spawned
C19_Witness ==
    /\ JustRan /\ panicked = "none"
    /\ \E tracked \in DOMAIN worlds, other \in DOMAIN worlds :
          /\ Visited(tracked) /\ CommandsOf(tracked) # {}
          /\ ~Visited(other) /\ SpawnedLevels(other) # {}
          /\ worlds[other].ldtk_handle # worlds[tracked].ldtk_handle
          /\ worlds[other].level_selection # worlds[tracked].level_selection

\* n chunks of ChunkSide cells cover the cells 0 .. c - 1 of an axis, and no
\* smaller number does
CoversExactly(n, c) ==
    /\ n >= 0
    /\ \A x \in 0..(c - 1) : x \div ChunkSide < n
    /\ n = 0 \/ \E x \in 0..(c - 1) : x \div ChunkSide = n - 1

(***************************************************************************)
(* C18 -- Chunk grid size: the map size of a layer node a run spawns       *)
(* covers the layer's grid: every cell (x, y) with 0 <= x < c_wid and      *)
(* 0 <= y < c_hei lies in a chunk (x div 32, y div 32) inside the map      *)
(* size, and the last chunk column and row each hold a cell.               *)
(***************************************************************************)
C18_ChunkGridCovers ==
    JustRan =>
        \A i \in DOMAIN commands :
            /\ CoversExactly(commands[i].map_size[1], LayerOfNode(commands[i]).c_wid)
            /\ CoversExactly(commands[i].map_size[2], LayerOfNode(commands[i]).c_hei)

\* a run has spawned a layer of 32 columns and 33 rows: one chunk column,
\* two chunk rows
C18_Witness ==
    /\ JustRan
    /\ \E i \in DOMAIN commands :
          /\ LayerOfNode(commands[i]).c_wid = ChunkSide
          /\ LayerOfNode(commands[i]).c_hei = ChunkSide + 1
          /\ commands[i].map_size = <<1, 2>>

(***************************************************************************)
(* lib.rs:175-245: the schedule LdtkPlugin::build sets up.  Each system is *)
(* registered with the sets it is in and the sets it runs after.           *)
(* "user_update" stands for a system of the app in Update, the one that    *)
(* changes the level selection (lib.rs:163-164).                           *)
(***************************************************************************)
Systems ==
    {"process_ldtk_assets", "process_ldtk_levels", "user_update",
     "worldly_adoption", "apply_level_selection", "apply_level_set",
     "clean_respawn_entities", "detect_level_spawned_events"}

\* .in_base_set(..) / .in_set(..)
SetsOf(system) ==
    CASE system = "process_ldtk_assets" -> {"CoreSet::PreUpdate"}
      [] system = "process_ldtk_levels" -> {"CoreSet::PreUpdate"}
      [] system = "user_update" -> {"CoreSet::Update"}
      [] system = "worldly_adoption" -> {"LdtkStage::ProcessApi"}
      [] system = "apply_level_selection" -> {"LdtkSystemSet::LevelSelection"}
      [] system = "apply_level_set" -> {"LdtkStage::ProcessApi"}
      [] system = "clean_respawn_entities" -> {"LdtkStage::ProcessApi"}
      [] system = "detect_level_spawned_events" -> {"CoreSet::PostUpdate"}

\* .after(..)
AfterOf(system) ==
    IF system = "apply_level_set" THEN {"LdtkSystemSet::LevelSet"} ELSE {}

(***************************************************************************)
(* The part of the frame a system runs in: 1 PreUpdate, 2 Update, 3 the    *)
(* stage ProcessApi added after Update (lib.rs:181-185), 4 PostUpdate.  A  *)
(* system in none of these is in Update, the default.  build() both adds   *)
(* ProcessApi as a stage (add_stage_after) and uses it as a set (in_set):  *)
(* api = "stage" takes the systems of that set to run in the stage,        *)
(* api = "set" takes it for a plain set, which leaves them in Update.      *)
(***************************************************************************)
PartOf(api, system) ==
    IF "CoreSet::PreUpdate" \in SetsOf(system) THEN 1
    ELSE IF "CoreSet::PostUpdate" \in SetsOf(system) THEN 4
    ELSE IF "LdtkStage::ProcessApi" \in SetsOf(system) /\ api = "stage" THEN 3
    ELSE 2

\* a system may run once every system of an earlier part of the frame has
\* run, and every system of the sets it is ordered after
MayRun(system) ==
    /\ system \notin ran
    /\ \A other \in Systems :
          PartOf(process_api, other) < PartOf(process_api, system) => other \in ran
    /\ \A other \in Systems :
          SetsOf(other) \cap AfterOf(system) # {} => other \in ran

\* the app is built: the plugin's systems are in its schedule
BuildSchedule(api) ==
    /\ process_api = "unbuilt"
    /\ process_api' = api
    /\ ran' = {}
    /\ frame' = 1
    /\ UNCHANGED <<ldtk_assets, ldtk_events, worlds, read_events, new_ldtks,
                   changed_ldtks, commands, scene, panicked, last_step, inputs>>

\* the executor runs one of the systems that may run
RunSystem(system) ==
    /\ process_api # "unbuilt"
    /\ MayRun(system)
    /\ ran' = ran \cup {system}
    /\ UNCHANGED <<process_api, frame>>
    /\ UNCHANGED <<ldtk_assets, ldtk_events, worlds, read_events, new_ldtks,
                   changed_ldtks, commands, scene, panicked, last_step, inputs>>

\* every system has run: the next frame begins
EndFrame ==
    /\ ran = Systems
    /\ frame < MaxFrames
    /\ ran' = {}
    /\ frame' = frame + 1
    /\ UNCHANGED process_api
    /\ UNCHANGED <<ldtk_assets, ldtk_events, worlds, read_events, new_ldtks,
                   changed_ldtks, commands, scene, panicked, last_step, inputs>>

ScheduleNext ==
    \/ \E api \in {"stage", "set"} : BuildSchedule(api)
    \/ \E system \in Systems : RunSystem(system)
    \/ EndFrame

ScheduleSpec == Init /\ [][ScheduleNext]_vars

(***************************************************************************)
(* C17 -- System ordering: in every frame apply_level_set runs only after  *)
(* apply_level_selection has run, and both run in the stage after Update,  *)
(* that is, only after the systems of Update have run.                     *)
(* build() puts apply_level_selection in no stage and orders               *)
(* apply_level_set after the set LevelSet, which no system is in.          *)
(***************************************************************************)
C17_SelectionBeforeSet ==
    /\ "apply_level_set" \in ran => "apply_level_selection" \in ran
    /\ "apply_level_selection" \in ran => "user_update" \in ran
    /\ "apply_level_set" \in ran => "user_update" \in ran

====
